---------------------------- MODULE Spec2Model ----------------------------
(***************************************************************************)
(* A model of SQLify: the SQL cleaning of QueryGenerator, its generation   *)
(* pipeline, the EmbeddingManager's index life cycle and the three         *)
(* orchestrators (app.py, gradio_app.py, main.py).                         *)
(*                                                                         *)
(* Text is a sequence of lexemes.  Every lexeme stands for the literal     *)
(* characters it is written with; the lexemes are chosen so that no        *)
(* pattern the code searches for (two dashes, slash-star, star-slash, a    *)
(* fence, "select", ";") can arise across a lexeme boundary other than the *)
(* way the operators below look for it:                                    *)
(*   "SELECT" "select"   the keyword, in two letter cases                  *)
(*   "x"                 any other word character                          *)
(*   " "  "\n"           a blank, a line break                             *)
(*   ";"  "-"  "/"  "*"  single characters                                 *)
(*   "FENCE" "FENCEsql"  three backquotes, bare or followed by sql         *)
(***************************************************************************)
EXTENDS Integers, Sequences, FiniteSets

VARIABLES
    cpc,             \* position of a lone _clean_sql_query call: "call" | "done" | "again"
    sql,             \* the text handed to it
    cleaned,         \* what it gave back
    recleaned,       \* what a second call, on the statement it gave back, gave back
    schema_file,     \* the content of schema_info.json (NoSchema: absent)
    gpc,             \* position inside generate_sql_query
    relevant_tables, \* its relevant_tables argument
    intent_resp,     \* the language model's answer to the intent call
    intent,          \* the intent handed to _generate_sql_with_claude
    sql_resp,        \* the language model's answer to the SQL call
    generated,       \* what generate_sql_query gave back
    calls,           \* the collaborator calls made for the current query, in order
    em,              \* the EmbeddingManager (self.embedding_manager)
    lookup,          \* what the last find_relevant_tables gave back
    build_completed, \* has a build_index call on em run to its end ?
    bpc,             \* position of a build_index call run beside a lookup
    lpc,             \* position of that find_relevant_tables call
    building,        \* the builder's local embedding_map
    gens,            \* which build made self.index / self.embedding_map
    seen,            \* what the lookup read of them
    variant,         \* which orchestrator runs: "app" | "gradio" | "main"
    db_conn,         \* the database db_manager.conn is connected to, or "none"
    qg_exists,       \* is self.query_generator set ?
    is_connected,    \* gradio_app.py's self.is_connected
    opc,             \* position inside process_query
    executed,        \* execute_query for the current query: "none" | "ok" | "failed"
    result,          \* what process_query returned
    init_result,     \* what connect_db / initialize returned
    ppc,             \* position of a lone call of a pure method: "idle" | "call" | "done"
    table_in,        \* the table handed to the description methods
    descs,           \* what they produced for it
    query_text,      \* the query handed to _preprocess_query
    variants,        \* the variants it returned
    rank_in          \* the index content, scores and top_k of a lone lookup

cleanVars == <<cpc, sql, cleaned, recleaned>>

genVars == <<gpc, relevant_tables, intent_resp, intent, sql_resp, generated>>

emVars == <<em, lookup, build_completed>>

raceVars == <<bpc, lpc, building, gens, seen>>

orchVars == <<variant, db_conn, qg_exists, is_connected, opc, executed, result, init_result>>

pureVars == <<ppc, table_in, descs, query_text, variants, rank_in>>

vars == <<cleanVars, schema_file, genVars, calls, emVars, raceVars, orchVars, pureVars>>

-----------------------------------------------------------------------------
(* Bounds *)

MaxLen == 4

MaxSqlLen == 3

MaxIntentLen == 1

MaxBuilds == 2

-----------------------------------------------------------------------------
(* Lexemes and Python's string primitives on them *)

SelectKw == {"SELECT", "select"}

White == {" ", "\n"}

Lexemes == {"SELECT", "select", "x", " ", "\n", ";", "-", "/", "*", "FENCE", "FENCEsql"}

SeqsUpTo(S, n) == UNION {[1..k -> S] : k \in 0..n}

\* s[i..] ; the empty text when i is past the end
From(s, i) == SubSeq(s, i, Len(s))

\* the positions of s holding one of toks
Positions(s, toks) == {i \in 1..Len(s) : s[i] \in toks}

Range(s) == {s[i] : i \in DOMAIN s}

Min(S) == CHOOSE m \in S : \A k \in S : m <= k

\* str.split(sep)[0]: the text before the first sep
SplitHead(s, sep) ==
    IF Positions(s, {sep}) = {} THEN s
    ELSE SubSeq(s, 1, Min(Positions(s, {sep})) - 1)

\* str.split(sep)[1], for a text that holds sep: the text between the first
\* sep and the next one (or the end)
SplitSecond(s, sep) == SplitHead(From(s, Min(Positions(s, {sep})) + 1), sep)

\* str.strip()
RECURSIVE LStrip(_)
LStrip(s) == IF s # <<>> /\ Head(s) \in White THEN LStrip(Tail(s)) ELSE s

RECURSIVE RStrip(_)
RStrip(s) ==
    IF s # <<>> /\ s[Len(s)] \in White THEN RStrip(SubSeq(s, 1, Len(s) - 1)) ELSE s

Strip(s) == RStrip(LStrip(s))

\* ' '.join(s.split()): runs of white space become one blank, none at the ends
RECURSIVE JoinWords(_)
JoinWords(s) ==
    LET t == LStrip(s) IN
    IF t = <<>> THEN <<>>
    ELSE IF LStrip(Tail(t)) = <<>> THEN <<Head(t)>>
    ELSE IF Tail(t) # <<>> /\ Head(Tail(t)) \in White
         THEN <<Head(t), " ">> \o JoinWords(Tail(t))
         ELSE <<Head(t)>> \o JoinWords(Tail(t))

\* a faulty variant: 'select' in s.lower(), a substring test
StartsWithSelect_Contains(s) == Positions(s, SelectKw) # {}

\* s.lower().startswith('select')
StartsWithSelect(s) == s # <<>> /\ Head(s) \in SelectKw

\* s.endswith(';')
EndsWithSemicolon(s) == s # <<>> /\ s[Len(s)] = ";"

-----------------------------------------------------------------------------
(* QueryGenerator._clean_sql_query *)

\* re.sub(r'--.*$|/\*.*?\*/', '', sql, flags=re.MULTILINE): '.' stops at a
\* line break, so a line comment runs to the end of its line and a block
\* comment is matched only when it closes on the line it opens on.
LineEnd(s) ==
    IF Positions(s, {"\n"}) = {} THEN Len(s) + 1 ELSE Min(Positions(s, {"\n"}))

BlockClose(s) ==
    {j \in 3..(Len(s) - 1) : s[j] = "*" /\ s[j + 1] = "/" /\ j < LineEnd(s)}

RECURSIVE RemoveComments(_)
RemoveComments(s) ==
    IF s = <<>> THEN <<>>
    ELSE IF Len(s) >= 2 /\ s[1] = "-" /\ s[2] = "-"
         THEN RemoveComments(From(s, LineEnd(s)))
    ELSE IF Len(s) >= 2 /\ s[1] = "/" /\ s[2] = "*" /\ BlockClose(s) # {}
         THEN RemoveComments(From(s, Min(BlockClose(s)) + 2))
    ELSE <<Head(s)>> \o RemoveComments(Tail(s))

\* the markdown code block: the sql-tagged fence first, a bare one otherwise
RemoveFence(s) ==
    IF Positions(s, {"FENCEsql"}) # {} THEN SplitHead(SplitSecond(s, "FENCEsql"), "FENCE")
    ELSE IF Positions(s, {"FENCE"}) # {} THEN SplitHead(SplitSecond(s, "FENCE"), "FENCE")
    ELSE s

\* re.findall(r'SELECT.*?;', sql, re.IGNORECASE | re.DOTALL): the matches
\* from left to right, each from a keyword to the first ';' after it
SpanStarts(s) ==
    {i \in Positions(s, SelectKw) : \E j \in Positions(s, {";"}) : j > i}

SpanEnd(s, i) == Min({j \in Positions(s, {";"}) : j > i})

\* a faulty variant: the greedy pattern SELECT.*; runs to the last ';'
FindAllSelect_Greedy(s) ==
    IF SpanStarts(s) = {} THEN <<>>
    ELSE <<SubSeq(s, Min(SpanStarts(s)),
                  CHOOSE j \in Positions(s, {";"}) : \A k \in Positions(s, {";"}) : k <= j)>>

RECURSIVE FindAllSelect(_)
FindAllSelect(s) ==
    IF SpanStarts(s) = {} THEN <<>>
    ELSE LET i == Min(SpanStarts(s))
             j == SpanEnd(s, i)
         IN  <<SubSeq(s, i, j)>> \o FindAllSelect(From(s, j + 1))

Returned(v) == [raised |-> FALSE, err |-> "", val |-> v]

Raised(e) == [raised |-> TRUE, err |-> e, val |-> <<>>]

NoResult == Raised("not called")

\* a faulty variant: the last match is kept instead of the first
clean_sql_query_LastMatch(text) ==
    LET body    == RemoveFence(RemoveComments(text))
        matches == FindAllSelect(body)
        rest    == Strip(body)
    IN  IF matches # <<>> THEN Returned(JoinWords(matches[Len(matches)]))
        ELSE IF ~StartsWithSelect(rest)
             THEN Raised("Invalid SQL query: must start with SELECT")
        ELSE IF ~EndsWithSemicolon(rest) THEN Returned(JoinWords(rest \o <<";">>))
        ELSE Returned(JoinWords(rest))

clean_sql_query(text) ==
    LET body    == RemoveFence(RemoveComments(text))
        matches == FindAllSelect(body)
        rest    == Strip(body)
    IN  IF matches # <<>> THEN Returned(JoinWords(matches[1]))
        ELSE IF ~StartsWithSelect(rest)
             THEN Raised("Invalid SQL query: must start with SELECT")
        ELSE IF ~EndsWithSemicolon(rest) THEN Returned(JoinWords(rest \o <<";">>))
        ELSE Returned(JoinWords(rest))

-----------------------------------------------------------------------------
(* The databases a connection string can name, and what their schemas hold. *)
(* extract_schema writes schema_info.json as a mapping from table name to   *)
(* column list; db records which database the content was extracted from.   *)

Databases == {"A", "B"}

\* information_schema order: ORDER BY table_schema, table_name
TableOrder == <<"dept", "emp", "orders">>

TablesOf(db) == IF db = "A" THEN {"dept", "emp"} ELSE {"orders"}

ColumnsOf(t) ==
    IF t = "emp" THEN <<[name |-> "salary", type |-> "numeric"]>>
    ELSE IF t = "dept" THEN <<[name |-> "name", type |-> "character varying"]>>
    ELSE <<[name |-> "order_date", type |-> "date"]>>

\* any(t in col['type'].lower() for t in [...]) on the types of the catalogue
NumericTypes == {"integer", "numeric"}

TextTypes == {"text", "character varying"}

DateTypes == {"date", "timestamp without time zone"}

NoSchema == [db |-> "none", tables |-> {}]

SchemaFrom(db, tabs) == [db |-> db, tables |-> tabs]

\* the contents schema_info.json can have: absent, or what an extraction wrote
\* (a table whose column query failed is skipped, so any non-empty subset)
Extractions(db) == {SchemaFrom(db, S) : S \in SUBSET TablesOf(db) \ {{}}}

-----------------------------------------------------------------------------
(* QueryGenerator._extract_query_intent *)

\* What messages.create can come back with: it raises, it answers without
\* content, or it answers with text.
LlmError == [kind |-> "error", text |-> <<>>]

LlmEmpty == [kind |-> "empty", text |-> <<>>]

LlmText(s) == [kind |-> "text", text |-> s]

\* The lexemes of an intent answer: JSON values, prose and fences.
\*   "{intent}"  an object with the four keys the prompt asks for
\*   "{}"        an object without them
\*   "[]"        a list
\*   "FENCEjson" three backquotes followed by json
JsonValues == {"{intent}", "{}", "[]"}

IntentLexemes == JsonValues \cup {"x", " ", "FENCE", "FENCEjson"}

IntentKeys == {"target_columns", "conditions", "subject", "output_columns"}

DefaultIntent ==
    [shape |-> "object", keys |-> IntentKeys, target_columns |-> <<>>,
     conditions |-> <<>>, subject |-> "None",
     output_columns |-> <<"name", "price", "category">>]

ModelIntent ==
    [shape |-> "object", keys |-> IntentKeys, target_columns |-> <<"name", "salary">>,
     conditions |-> <<"salary > 50000">>, subject |-> "employees",
     output_columns |-> <<"name", "salary">>]

EmptyObject == [DefaultIntent EXCEPT !.keys = {}, !.output_columns = <<>>]

EmptyList == [EmptyObject EXCEPT !.shape = "list"]

NoIntent == [EmptyObject EXCEPT !.shape = "unset"]

JsonValue(lex) ==
    IF lex = "{intent}" THEN ModelIntent ELSE IF lex = "{}" THEN EmptyObject ELSE EmptyList

\* json.loads(text.strip()): one JSON value, white space around it allowed;
\* anything else is a JSONDecodeError
json_loads(s) ==
    LET body == Strip(s) IN
    IF Len(body) = 1 /\ body[1] \in JsonValues
    THEN [raised |-> FALSE, value |-> JsonValue(body[1])]
    ELSE [raised |-> TRUE, value |-> NoIntent]

\* the markdown handling of the intent answer; the bare-fence branch takes
\* split(...)[1] only, which ends at the next fence all the same
IntentPayload(s) ==
    IF Positions(s, {"FENCEjson"}) # {}
    THEN SplitHead(SplitSecond(s, "FENCEjson"), "FENCE")
    ELSE IF Positions(s, {"FENCE"}) # {} THEN SplitSecond(s, "FENCE")
    ELSE s

\* _extract_query_intent: the parsed answer whatever its shape; the default
\* when the call raised, the answer had no content (the IndexError handler
\* itself fails on the unbound response_text and the outer handler takes
\* over) or the text was not JSON
extract_query_intent(resp) ==
    IF resp.kind # "text" THEN DefaultIntent
    ELSE IF json_loads(IntentPayload(resp.text)).raised THEN DefaultIntent
    ELSE json_loads(IntentPayload(resp.text)).value

-----------------------------------------------------------------------------
(* QueryGenerator._generate_sql_with_claude and generate_sql_query *)

\* the f-string reads intent['output_columns'], ['subject'], ['conditions']:
\* a TypeError on a list, a KeyError on an object without the key
IntentFormats(i) ==
    i.shape = "object" /\ {"output_columns", "subject", "conditions"} \subseteq i.keys

\* response.content[0].text.strip(), cleaned; every failure is re-raised
generate_sql_with_claude(resp) ==
    IF resp.kind = "error" THEN Raised("model call failed")
    ELSE IF resp.kind = "empty" THEN Raised("list index out of range")
    ELSE clean_sql_query(Strip(resp.text))

\* the check of generate_sql_query on what _generate_sql_with_claude returned
ValidateGenerated(r) ==
    IF r.raised THEN r
    ELSE IF ~StartsWithSelect(r.val) THEN Raised("Generated query does not start with SELECT")
    ELSE r

\* open('schema_info.json') and the narrowing to the relevant tables
RECURSIVE TableNames(_)
TableNames(rt) ==
    IF rt = <<>> THEN {} ELSE {Head(rt).table_name} \cup TableNames(Tail(rt))

LoadsAndNarrows(file, rt) == file # NoSchema /\ TableNames(rt) \subseteq file.tables

GenLoad ==
    /\ gpc = "load"
    /\ IF LoadsAndNarrows(schema_file, relevant_tables)
       THEN gpc' = "intent" /\ UNCHANGED generated
       ELSE gpc' = "done" /\ generated' = Raised("Error generating SQL query: schema")
    /\ UNCHANGED <<cleanVars, pureVars, schema_file, relevant_tables, intent_resp, intent,
                   sql_resp, calls, emVars, raceVars, orchVars>>

GenIntent(resp) ==
    /\ gpc = "intent"
    /\ intent_resp' = resp
    /\ intent' = extract_query_intent(resp)
    /\ calls' = Append(calls, "intent")
    /\ gpc' = "sql"
    /\ UNCHANGED <<cleanVars, pureVars, schema_file, relevant_tables, sql_resp, generated,
                   emVars, raceVars, orchVars>>

GenSql(resp) ==
    /\ gpc = "sql"
    /\ IF IntentFormats(intent)
       THEN /\ sql_resp' = resp
            /\ calls' = Append(calls, "sql")
            /\ generated' = ValidateGenerated(generate_sql_with_claude(resp))
       ELSE /\ generated' = Raised("Error generating SQL query: intent")
            /\ UNCHANGED <<sql_resp, calls>>
    /\ gpc' = "done"
    /\ UNCHANGED <<cleanVars, pureVars, schema_file, relevant_tables, intent_resp, intent,
                   emVars, raceVars, orchVars>>

-----------------------------------------------------------------------------
(* EmbeddingManager *)

\* __init__: no index, no schema, and no embedding_map attribute at all
NewManager ==
    [exists |-> TRUE,
     schema_info |-> NoSchema,
     table_descriptions |-> <<>>,
     index |-> [built |-> FALSE, items |-> <<>>],
     embedding_map |-> [assigned |-> FALSE, names |-> <<>>]]

NoManager == [NewManager EXCEPT !.exists = FALSE]

\* load_schema: True and the file's content, or False when it cannot be read
load_schema(m, file) ==
    IF file = NoSchema THEN [ok |-> FALSE, m |-> m]
    ELSE [ok |-> TRUE, m |-> [m EXCEPT !.schema_info = file]]

RECURSIVE SelectSeq2(_, _)
SelectSeq2(s, S) ==
    IF s = <<>> THEN <<>>
    ELSE IF Head(s) \in S THEN <<Head(s)>> \o SelectSeq2(Tail(s), S)
    ELSE SelectSeq2(Tail(s), S)

RECURSIVE Repeat(_, _)
Repeat(x, n) == IF n = 0 THEN <<>> ELSE <<x>> \o Repeat(x, n - 1)

RECURSIVE CountIn(_, _)
CountIn(cols, types) ==
    IF cols = <<>> THEN 0
    ELSE (IF Head(cols).type \in types THEN 1 ELSE 0) + CountIn(Tail(cols), types)

\* a faulty variant: a table without columns gets no description at all
DescriptionsFor_SkipEmpty(cols) ==
    IF cols = <<>> THEN <<>>
    ELSE <<"columns", "purpose">>
         \o Repeat("column", Len(cols))
         \o Repeat("numeric", CountIn(cols, NumericTypes))
         \o Repeat("text", CountIn(cols, TextTypes))
         \o Repeat("date", CountIn(cols, DateTypes))

\* the description variants create_table_descriptions builds for a table
\* with the columns cols, by kind and in the order built
DescriptionsFor(cols) ==
    <<"columns", "purpose">>
    \o Repeat("column", Len(cols))
    \o Repeat("numeric", CountIn(cols, NumericTypes))
    \o Repeat("text", CountIn(cols, TextTypes))
    \o Repeat("date", CountIn(cols, DateTypes))

\* the description variants of one table of the catalogue
Descriptions(t) == DescriptionsFor(ColumnsOf(t))

\* Column names are sequences of lexemes: "id", "date", the words the code
\* looks for, "x" for any other word and "_"; "ID" and "Price" are names
\* written with capitals.  str.lower():
LowerLexeme(l) == IF l = "ID" THEN "id" ELSE IF l = "Price" THEN "price" ELSE l

LowerName(name) == [i \in DOMAIN name |-> LowerLexeme(name[i])]

MonetaryNames == {<<"salary">>, <<"wage">>, <<"payment">>, <<"amount">>}

NamingNames == {<<"name">>, <<"title">>, <<"label">>}

\* col_type.startswith('date') or col_type.startswith('timestamp')
StartsDateOrTimestamp == {"date", "timestamp without time zone"}

\* _create_semantic_descriptions: the branch taken for one column
semantic_role(name, type) ==
    LET n == LowerName(name) IN
    IF "id" \in Range(n) /\ n[Len(n)] = "id" THEN "identifier"
    ELSE IF n \in MonetaryNames THEN "monetary"
    ELSE IF "date" \in Range(n) \/ type \in StartsDateOrTimestamp THEN "temporal"
    ELSE IF n \in NamingNames THEN "naming"
    ELSE "generic"

\* semantic_columns and descriptions of one table of a loaded schema
describe_table(table) ==
    [raised |-> FALSE,
     roles |-> [i \in DOMAIN table.columns |->
                   semantic_role(table.columns[i].name, table.columns[i].type)],
     descriptions |-> DescriptionsFor(table.columns)]

RECURSIVE DescribeAll(_)
DescribeAll(ts) ==
    IF ts = <<>> THEN <<>>
    ELSE <<[table_name |-> Head(ts), descriptions |-> Descriptions(Head(ts))]>>
         \o DescribeAll(Tail(ts))

\* create_table_descriptions: raises without a schema, else replaces the list
create_table_descriptions(m) ==
    IF m.schema_info.tables = {}
    THEN [raised |-> TRUE, err |-> "Schema not loaded", m |-> m]
    ELSE [raised |-> FALSE, err |-> "",
          m |-> [m EXCEPT !.table_descriptions =
                     DescribeAll(SelectSeq2(TableOrder, m.schema_info.tables))]]

RECURSIVE Corpus(_)
Corpus(tds) ==
    IF tds = <<>> THEN <<>>
    ELSE Repeat(Head(tds).table_name, Len(Head(tds).descriptions)) \o Corpus(Tail(tds))

\* build_index run to its end by one caller: encode_ok is whether the
\* sentence encoder answered.  The index is assigned before the map.
build_index(m, encode_ok) ==
    LET c == IF m.table_descriptions = <<>>
             THEN create_table_descriptions(m)
             ELSE [raised |-> FALSE, err |-> "", m |-> m]
    IN  IF c.raised THEN c
        ELSE IF ~encode_ok THEN [raised |-> TRUE, err |-> "encode failed", m |-> c.m]
        ELSE [raised |-> FALSE, err |-> "",
              m |-> [c.m EXCEPT
                       !.index = [built |-> TRUE, items |-> Corpus(c.m.table_descriptions)],
                       !.embedding_map =
                           [assigned |-> TRUE, names |-> Corpus(c.m.table_descriptions)]]]

\* _preprocess_query: the query itself, and two phrasings per (amount,
\* comparison) pair when both kinds were found
NumVariants(q) ==
    IF q.amounts > 0 /\ q.comparisons > 0 THEN 1 + 2 * q.amounts * q.comparisons ELSE 1

\* self.index.search(q, n): the n best items of one variant, best first
\* (scores are hundredths; items of equal score in index order)
Better(row, i, j) == row[i] > row[j] \/ (row[i] = row[j] /\ i < j)

Rank(row, i) == 1 + Cardinality({j \in DOMAIN row : Better(row, j, i)})

\* a faulty variant: only top_k candidates are fetched, not top_k * 2
Search_Half(row, n) ==
    [r \in 1..(IF n \div 2 < Len(row) THEN n \div 2 ELSE Len(row)) |->
        CHOOSE i \in DOMAIN row : Rank(row, i) = r]

Search(row, n) ==
    [r \in 1..(IF n < Len(row) THEN n ELSE Len(row)) |->
        CHOOSE i \in DOMAIN row : Rank(row, i) = r]

Threshold == 30

\* a faulty variant: the last score seen for a table replaces the earlier one
Upsert_LastWins(matches, t, score) ==
    IF \E k \in DOMAIN matches : matches[k].table_name = t
    THEN [k \in DOMAIN matches |->
            IF matches[k].table_name = t
            THEN [table_name |-> t, similarity_score |-> score]
            ELSE matches[k]]
    ELSE Append(matches, [table_name |-> t, similarity_score |-> score])

\* all_matches[table] = max(all_matches.get(table, 0.0), score), the dict
\* keeping the order in which tables were first seen
Upsert(matches, t, score) ==
    IF \E k \in DOMAIN matches : matches[k].table_name = t
    THEN [k \in DOMAIN matches |->
            IF matches[k].table_name = t /\ matches[k].similarity_score < score
            THEN [table_name |-> t, similarity_score |-> score]
            ELSE matches[k]]
    ELSE Append(matches, [table_name |-> t, similarity_score |-> score])

RECURSIVE MatchRow(_, _, _, _)
MatchRow(matches, names, row, hits) ==
    IF hits = <<>> THEN matches
    ELSE IF row[Head(hits)] > Threshold
         THEN MatchRow(Upsert(matches, names[Head(hits)], row[Head(hits)]),
                       names, row, Tail(hits))
         ELSE MatchRow(matches, names, row, Tail(hits))

\* the loop over the query variants; cands[v] are the candidates of variant v
RECURSIVE MatchAll(_, _, _, _, _)
MatchAll(matches, names, sim, cands, v) ==
    IF v > Len(sim) THEN matches
    ELSE MatchAll(MatchRow(matches, names, sim[v], cands[v]), names, sim, cands, v + 1)

\* sorted(..., key=score, reverse=True): stable, best first
RECURSIVE InsertDesc(_, _)
InsertDesc(sorted, e) ==
    IF sorted = <<>> THEN <<e>>
    ELSE IF Head(sorted).similarity_score >= e.similarity_score
         THEN <<Head(sorted)>> \o InsertDesc(Tail(sorted), e)
         ELSE <<e>> \o sorted

\* a faulty variant: the matches are left in the order of the dict
SortDesc_Unsorted(s) == s

RECURSIVE SortDesc(_)
SortDesc(s) ==
    IF s = <<>> THEN <<>>
    ELSE InsertDesc(SortDesc(SubSeq(s, 1, Len(s) - 1)), s[Len(s)])

Truncate(s, n) == SubSeq(s, 1, IF n < Len(s) THEN n ELSE Len(s))

TopK == 2

\* a faulty variant: the guard on self.index is missing
find_relevant_tables_NoGuard(index, map, sim, top_k) ==
    LET cands == [v \in DOMAIN sim |-> Search(sim[v], top_k * 2)]
    IN  Returned(Truncate(SortDesc(MatchAll(<<>>, map.names, sim, cands, 1)), top_k))

\* find_relevant_tables(query, top_k), reading self.index as index and
\* self.embedding_map as map; sim[v][i] is the score the encoder gives item
\* i of the index for variant v of the query.  The candidates with a score
\* over the threshold (over): the loop looks their owner up in map.
find_relevant_tables(index, map, sim, top_k) ==
    LET cands == [v \in DOMAIN sim |-> Search(sim[v], top_k * 2)]
    IN  IF ~index.built THEN Raised("Index not built")
        ELSE LET over == UNION {{cands[v][r] : r \in {x \in DOMAIN cands[v] :
                                     sim[v][cands[v][x]] > Threshold}} : v \in DOMAIN sim}
             IN  IF over # {} /\ ~map.assigned
                 THEN Raised("no attribute embedding_map")
                 ELSE IF \E i \in over : i > Len(map.names)
                      THEN Raised("list index out of range")
                 ELSE Returned(Truncate(SortDesc(
                          MatchAll(<<>>, map.names, sim, cands, 1)), top_k))

-----------------------------------------------------------------------------
(* The cleaning of one model output *)

IdleGen ==
    /\ gpc = "idle"
    /\ relevant_tables = <<>>
    /\ intent_resp = LlmError
    /\ intent = NoIntent
    /\ sql_resp = LlmError
    /\ generated = NoResult
    /\ calls = <<>>

NothingSeen == [index |-> 0, filled |-> FALSE, items |-> <<>>, read_map |-> FALSE, map |-> 0]

IdleRace ==
    /\ bpc = "idle"
    /\ lpc = "idle"
    /\ building = <<>>
    /\ gens = [index |-> 0, map |-> 0, started |-> 0]
    /\ seen = NothingSeen

IdleManager ==
    /\ em = NoManager
    /\ lookup = NoResult
    /\ build_completed = FALSE

NoAnswer == [kind |-> "none", message |-> "", rows |-> "none"]

NoInit == [ok |-> FALSE, raised |-> FALSE, connected |-> FALSE, steps |-> <<>>]

IdleOrch ==
    /\ variant = "none"
    /\ db_conn = "none"
    /\ qg_exists = FALSE
    /\ is_connected = FALSE
    /\ opc = "idle"
    /\ executed = "none"
    /\ result = NoAnswer
    /\ init_result = NoInit

NoTable == [table_name |-> "none", columns |-> <<>>]

NoRank == [names |-> <<>>, sim |-> <<>>, top_k |-> 0]

IdlePure ==
    /\ ppc = "idle"
    /\ table_in = NoTable
    /\ descs = <<>>
    /\ query_text = <<>>
    /\ variants = <<>>
    /\ rank_in = NoRank

InitClean ==
    /\ cpc = "call"
    /\ sql \in SeqsUpTo(Lexemes, MaxLen)
    /\ cleaned = NoResult
    /\ recleaned = NoResult
    /\ schema_file = NoSchema
    /\ IdleGen
    /\ IdleManager
    /\ IdleRace
    /\ IdleOrch
    /\ IdlePure

CleanCall ==
    /\ cpc = "call"
    /\ cleaned' = clean_sql_query(sql)
    /\ cpc' = "done"
    /\ UNCHANGED <<sql, recleaned, schema_file, genVars, calls, emVars, raceVars, orchVars,
                   pureVars>>

NextClean == CleanCall

SpecClean == InitClean /\ [][NextClean]_vars

-----------------------------------------------------------------------------
(* _clean_sql_query on one statement that carries comments: SELECT, a body *)
(* of comment marks, line breaks and a word, then the closing ';'          *)

MaxCommentLen == 5

CommentLexemes == {"-", "/", "*", "\n", "x"}

InitComment ==
    /\ cpc = "call"
    /\ sql \in {<<"SELECT">> \o s \o <<";">> : s \in SeqsUpTo(CommentLexemes, MaxCommentLen)}
    /\ cleaned = NoResult
    /\ recleaned = NoResult
    /\ schema_file = NoSchema
    /\ IdleGen
    /\ IdleManager
    /\ IdleRace
    /\ IdleOrch
    /\ IdlePure

NextComment == CleanCall

SpecComment == InitComment /\ [][NextComment]_vars

-----------------------------------------------------------------------------
(* _clean_sql_query called a second time, on the statement the first call *)
(* returned                                                              *)

CommentStatements ==
    {<<"SELECT">> \o s \o <<";">> : s \in SeqsUpTo(CommentLexemes, MaxCommentLen)}

InitTwice ==
    /\ cpc = "call"
    /\ sql \in SeqsUpTo(Lexemes, MaxLen) \cup CommentStatements
    /\ cleaned = NoResult
    /\ recleaned = NoResult
    /\ schema_file = NoSchema
    /\ IdleGen
    /\ IdleManager
    /\ IdleRace
    /\ IdleOrch
    /\ IdlePure

CleanAgain ==
    /\ cpc = "done"
    /\ ~cleaned.raised
    /\ recleaned' = clean_sql_query(cleaned.val)
    /\ cpc' = "again"
    /\ UNCHANGED <<sql, cleaned, schema_file, genVars, calls, emVars, raceVars, orchVars,
                   pureVars>>

NextTwice == CleanCall \/ CleanAgain

SpecTwice == InitTwice /\ [][NextTwice]_vars

-----------------------------------------------------------------------------
(* One call of generate_sql_query, over every answer of the language model *)

GenLexemes == {"SELECT", "select", "x", " ", ";", "FENCE"}

IntentResponses ==
    {LlmError, LlmEmpty} \cup {LlmText(s) : s \in SeqsUpTo(IntentLexemes, MaxIntentLen)}

SqlResponses == {LlmError, LlmEmpty} \cup {LlmText(s) : s \in SeqsUpTo(GenLexemes, MaxSqlLen)}

Hit(t) == [table_name |-> t, similarity_score |-> 80]

IdleClean == cpc = "done" /\ sql = <<>> /\ cleaned = NoResult /\ recleaned = NoResult

InitGen ==
    /\ IdleClean
    /\ schema_file \in {NoSchema, SchemaFrom("A", {"dept", "emp"})}
    /\ relevant_tables \in {<<Hit("emp")>>, <<Hit("emp"), Hit("dept")>>, <<Hit("orders")>>}
    /\ gpc = "load"
    /\ intent_resp = LlmError
    /\ intent = NoIntent
    /\ sql_resp = LlmError
    /\ generated = NoResult
    /\ calls = <<>>
    /\ IdleManager
    /\ IdleRace
    /\ IdleOrch
    /\ IdlePure

NextGen ==
    \/ GenLoad
    \/ \E resp \in IntentResponses : GenIntent(resp)
    \/ \E resp \in SqlResponses : GenSql(resp)

SpecGen == InitGen /\ [][NextGen]_vars

-----------------------------------------------------------------------------
(* One EmbeddingManager used by one caller: the schema file is written by  *)
(* extract_schema, and the manager's methods are called in any order.      *)

Queries == [amounts : 0..1, comparisons : 0..1]

ScoreLevels == {20, 90}

\* the score matrices of a lookup in which all the descriptions of a table
\* score alike for a variant
RowOf(items, f) == [i \in 1..Len(items) |-> f[items[i]]]

Sims(items, nv, levels) ==
    {[v \in 1..nv |-> RowOf(items, f[v])] : f \in [1..nv -> [Range(items) -> levels]]}

InitEM ==
    /\ IdleClean
    /\ schema_file = NoSchema
    /\ IdleGen
    /\ em = NewManager
    /\ lookup = NoResult
    /\ build_completed = FALSE
    /\ IdleRace
    /\ IdleOrch
    /\ IdlePure

\* database.py extract_schema: json.dump(schema_info, f)
WriteSchemaFile(s) ==
    /\ schema_file' = s
    /\ UNCHANGED <<cleanVars, pureVars, genVars, calls, emVars, raceVars, orchVars>>

LoadSchema ==
    /\ em' = load_schema(em, schema_file).m
    /\ UNCHANGED <<cleanVars, pureVars, schema_file, genVars, calls, lookup, build_completed, raceVars, orchVars>>

CreateTableDescriptions ==
    /\ em' = create_table_descriptions(em).m
    /\ UNCHANGED <<cleanVars, pureVars, schema_file, genVars, calls, lookup, build_completed, raceVars, orchVars>>

BuildIndex(encode_ok) ==
    /\ em' = build_index(em, encode_ok).m
    /\ build_completed' = (build_completed \/ ~build_index(em, encode_ok).raised)
    /\ UNCHANGED <<cleanVars, pureVars, schema_file, genVars, calls, lookup, raceVars, orchVars>>

FindRelevantTables(q, top_k, sim) ==
    /\ lookup' = find_relevant_tables(em.index, em.embedding_map, sim, top_k)
    /\ UNCHANGED <<cleanVars, pureVars, schema_file, genVars, calls, em, build_completed, raceVars, orchVars>>

NextEM ==
    \/ \E db \in Databases : \E s \in Extractions(db) : WriteSchemaFile(s)
    \/ LoadSchema
    \/ CreateTableDescriptions
    \/ \E ok \in BOOLEAN : BuildIndex(ok)
    \/ \E q \in Queries : \E k \in 1..TopK :
           \E sim \in Sims(em.index.items, NumVariants(q), ScoreLevels) :
               FindRelevantTables(q, k, sim)

SpecEM == InitEM /\ [][NextEM]_vars

-----------------------------------------------------------------------------
(* One EmbeddingManager shared by a caller that (re)builds the index and a *)
(* caller that looks tables up, their statements interleaved.  gens counts *)
(* the builds: which one made the index and the map now in the manager.    *)

InitRace ==
    /\ IdleClean
    /\ schema_file = SchemaFrom("A", {"dept", "emp"})
    /\ IdleGen
    /\ em = create_table_descriptions(load_schema(NewManager, schema_file).m).m
    /\ lookup = NoResult
    /\ build_completed = FALSE
    /\ IdleRace
    /\ IdleOrch
    /\ IdlePure

\* the builder's caller reloads the schema between two builds
\* (load_schema, create_table_descriptions)
RaceReload(s) ==
    /\ bpc = "idle"
    /\ schema_file' = s
    /\ em' = create_table_descriptions(load_schema(em, s).m).m
    /\ UNCHANGED <<cleanVars, pureVars, genVars, calls, lookup, build_completed, raceVars, orchVars>>

\* build_index up to np.vstack: the local all_embeddings and embedding_map
BuildEncode ==
    /\ bpc = "idle"
    /\ gens.started < MaxBuilds
    /\ building' = Corpus(em.table_descriptions)
    /\ gens' = [gens EXCEPT !.started = @ + 1]
    /\ bpc' = "encoded"
    /\ UNCHANGED <<cleanVars, pureVars, schema_file, genVars, calls, emVars, lpc, seen, orchVars>>

\* self.index = faiss.IndexFlatIP(...): a fresh, empty index
BuildNewIndex ==
    /\ bpc = "encoded"
    /\ em' = [em EXCEPT !.index = [built |-> TRUE, items |-> <<>>]]
    /\ gens' = [gens EXCEPT !.index = gens.started]
    /\ bpc' = "created"
    /\ UNCHANGED <<cleanVars, pureVars, schema_file, genVars, calls, lookup, build_completed,
                   lpc, building, seen, orchVars>>

\* self.index.add(all_embeddings)
BuildAdd ==
    /\ bpc = "created"
    /\ em' = [em EXCEPT !.index.items = building]
    /\ bpc' = "added"
    /\ UNCHANGED <<cleanVars, pureVars, schema_file, genVars, calls, lookup, build_completed,
                   lpc, building, gens, seen, orchVars>>

\* self.embedding_map = embedding_map
BuildStoreMap ==
    /\ bpc = "added"
    /\ em' = [em EXCEPT !.embedding_map = [assigned |-> TRUE, names |-> building]]
    /\ gens' = [gens EXCEPT !.map = gens.started]
    /\ build_completed' = TRUE
    /\ bpc' = "idle"
    /\ UNCHANGED <<cleanVars, pureVars, schema_file, genVars, calls, lookup, lpc, building, seen, orchVars>>

\* find_relevant_tables: if not self.index: raise
LookupCheck ==
    /\ lpc \in {"idle", "done"}
    /\ seen' = NothingSeen
    /\ IF em.index.built
       THEN lpc' = "search" /\ lookup' = NoResult
       ELSE lpc' = "done" /\ lookup' = Raised("Index not built")
    /\ UNCHANGED <<cleanVars, pureVars, schema_file, genVars, calls, em, build_completed,
                   bpc, building, gens, orchVars>>

\* self.index.search(...): reads self.index
LookupSearch ==
    /\ lpc = "search"
    /\ seen' = [seen EXCEPT !.index = gens.index, !.filled = (bpc # "created"),
                            !.items = em.index.items]
    /\ lpc' = "map"
    /\ UNCHANGED <<cleanVars, pureVars, schema_file, genVars, calls, emVars, bpc, building, gens, orchVars>>

\* the loop over the candidates: reads self.embedding_map for every score
\* over the threshold, then sorts and returns
LookupMap(sim) ==
    /\ lpc = "map"
    /\ seen' = [seen EXCEPT !.read_map = (\E i \in DOMAIN sim[1] : sim[1][i] > Threshold),
                            !.map = gens.map]
    /\ lookup' = find_relevant_tables([built |-> TRUE, items |-> seen.items],
                                      em.embedding_map, sim, TopK)
    /\ lpc' = "done"
    /\ UNCHANGED <<cleanVars, pureVars, schema_file, genVars, calls, em, build_completed,
                   bpc, building, gens, orchVars>>

NextRace ==
    \/ \E db \in Databases : \E s \in Extractions(db) : RaceReload(s)
    \/ BuildEncode
    \/ BuildNewIndex
    \/ BuildAdd
    \/ BuildStoreMap
    \/ LookupCheck
    \/ LookupSearch
    \/ \E sim \in Sims(seen.items, 1, ScoreLevels) : LookupMap(sim)

SpecRace == InitRace /\ [][NextRace]_vars

-----------------------------------------------------------------------------
(* One find_relevant_tables call on a built index, over the corpora the    *)
(* catalogue's schemas give and over the scores the encoder can give:      *)
(* item by item for a plain query, table by table for a query with an      *)
(* amount and a comparison (three variants).                               *)

\* hundredths: at the threshold, above it, and the most two normalised
\* vectors can give
RankLevels == {30, 50, 100}

\* the embedding_map build_index leaves for a schema file
CorpusOf(s) ==
    build_index(create_table_descriptions(load_schema(NewManager, s).m).m, TRUE)
        .m.embedding_map.names

RankCorpora == {CorpusOf(s) : s \in UNION {Extractions(db) : db \in Databases}}

ItemSims(names) == {<<row>> : row \in [1..Len(names) -> RankLevels]}

RankSims(names) ==
    ItemSims(names)
    \cup UNION {Sims(names, NumVariants(q), RankLevels) : q \in Queries}

InitRank ==
    /\ IdleClean
    /\ schema_file = NoSchema
    /\ IdleGen
    /\ IdleManager
    /\ IdleRace
    /\ IdleOrch
    /\ ppc = "call"
    /\ table_in = NoTable
    /\ descs = <<>>
    /\ query_text = <<>>
    /\ variants = <<>>
    /\ \E names \in RankCorpora : \E sim \in RankSims(names) : \E k \in 1..TopK :
           rank_in = [names |-> names, sim |-> sim, top_k |-> k]

RankCall ==
    /\ ppc = "call"
    /\ rank_in # NoRank
    /\ lookup' = find_relevant_tables([built |-> TRUE, items |-> rank_in.names],
                                      [assigned |-> TRUE, names |-> rank_in.names],
                                      rank_in.sim, rank_in.top_k)
    /\ ppc' = "done"
    /\ UNCHANGED <<cleanVars, schema_file, genVars, calls, em, build_completed,
                   raceVars, orchVars, table_in, descs, query_text, variants, rank_in>>

NextRank == RankCall

SpecRank == InitRank /\ [][NextRank]_vars

-----------------------------------------------------------------------------
(* The description methods on one table of a loaded schema: every column   *)
(* name of up to MaxNameLen lexemes with every type, and tables of up to   *)
(* MaxCols columns.                                                        *)

MaxNameLen == 3

MaxCols == 2

DescNameLexemes ==
    {"id", "ID", "date", "salary", "amount", "price", "Price", "name", "x", "_"}

ColumnNames == UNION {[1..k -> DescNameLexemes] : k \in 1..MaxNameLen}

\* data_type as information_schema.columns gives it, and the empty type
DescTypes ==
    {"integer", "numeric", "character varying", "text", "date",
     "timestamp without time zone", "boolean", ""}

Column(name, type) == [name |-> name, type |-> type]

SampleColumns ==
    {Column(<<"x", "_", "id">>, "integer"), Column(<<"salary">>, "numeric"),
     Column(<<"name">>, "character varying"), Column(<<"x", "_", "date">>, "date"),
     Column(<<"x">>, "")}

DescTables ==
    {[table_name |-> "emp", columns |-> <<Column(n, ty)>>] :
        n \in ColumnNames, ty \in DescTypes}
    \cup {[table_name |-> "emp", columns |-> cols] : cols \in SeqsUpTo(SampleColumns, MaxCols)}

InitDesc ==
    /\ IdleClean
    /\ schema_file = NoSchema
    /\ IdleGen
    /\ IdleManager
    /\ IdleRace
    /\ IdleOrch
    /\ ppc = "call"
    /\ table_in \in DescTables
    /\ descs = <<>>
    /\ query_text = <<>>
    /\ variants = <<>>
    /\ rank_in = NoRank

\* create_table_descriptions on a schema_info holding table_in
DescribeCall ==
    /\ ppc = "call"
    /\ table_in # NoTable
    /\ descs' = describe_table(table_in)
    /\ ppc' = "done"
    /\ UNCHANGED <<cleanVars, schema_file, genVars, calls, emVars, raceVars, orchVars,
                   table_in, query_text, variants, rank_in>>

NextDesc == DescribeCall

SpecDesc == InitDesc /\ [][NextDesc]_vars

-----------------------------------------------------------------------------
(* EmbeddingManager._preprocess_query on one query.  A query is a sequence *)
(* of words separated by blanks:                                           *)
(*   "w" "W"                  a word, in small letters and with capitals   *)
(*   "7" "1,000.50"           numbers the amount pattern matches whole     *)
(*   "3.5"                    a number it matches as "3" and "5"           *)
(*   "more than" "At Least"   comparison phrases, the second with capitals *)

MaxQueryLen == 3

QueryLexemes == {"w", "W", "7", "1,000.50", "3.5", "more than", "At Least"}

\* query.lower()
LowerWord(l) == IF l = "W" THEN "w" ELSE IF l = "At Least" THEN "at least" ELSE l

LowerQuery(q) == [i \in DOMAIN q |-> LowerWord(q[i])]

\* re.findall(amount_pattern, query), on the lowercased query
AmountsIn(l) ==
    IF l \in {"7", "1,000.50"} THEN <<l>> ELSE IF l = "3.5" THEN <<"3", "5">> ELSE <<>>

RECURSIVE Amounts(_)
Amounts(q) == IF q = <<>> THEN <<>> ELSE AmountsIn(Head(q)) \o Amounts(Tail(q))

\* re.findall(comparison_pattern, query), on the lowercased query
RECURSIVE Comparisons(_)
Comparisons(q) ==
    IF q = <<>> THEN <<>>
    ELSE (IF Head(q) \in {"more than", "at least"} THEN <<Head(q)>> ELSE <<>>)
         \o Comparisons(Tail(q))

QueryVariant(text) == [kind |-> "query", text |-> text, comp |-> "", amount |-> ""]

\* f"records where value is {comp} {amount}", f"entries with values {comp} {amount}"
Phrasing(kind, comp, amount) == [kind |-> kind, text |-> <<>>, comp |-> comp, amount |-> amount]

RECURSIVE ForComparisons(_, _)
ForComparisons(amount, comps) ==
    IF comps = <<>> THEN <<>>
    ELSE <<Phrasing("records", Head(comps), amount), Phrasing("entries", Head(comps), amount)>>
         \o ForComparisons(amount, Tail(comps))

RECURSIVE ForAmounts(_, _)
ForAmounts(amounts, comps) ==
    IF amounts = <<>> THEN <<>>
    ELSE ForComparisons(Head(amounts), comps) \o ForAmounts(Tail(amounts), comps)

\* a faulty variant: the query itself is left out once phrasings were added
preprocess_query_DropsQuery(query) ==
    LET q == LowerQuery(query) IN
    IF Amounts(q) # <<>> /\ Comparisons(q) # <<>>
    THEN ForAmounts(Amounts(q), Comparisons(q))
    ELSE <<QueryVariant(q)>>

\* _preprocess_query
preprocess_query(query) ==
    LET q == LowerQuery(query) IN
    IF Amounts(q) # <<>> /\ Comparisons(q) # <<>>
    THEN <<QueryVariant(q)>> \o ForAmounts(Amounts(q), Comparisons(q))
    ELSE <<QueryVariant(q)>>

InitPre ==
    /\ IdleClean
    /\ schema_file = NoSchema
    /\ IdleGen
    /\ IdleManager
    /\ IdleRace
    /\ IdleOrch
    /\ ppc = "call"
    /\ table_in = NoTable
    /\ descs = <<>>
    /\ query_text \in SeqsUpTo(QueryLexemes, MaxQueryLen)
    /\ variants = <<>>
    /\ rank_in = NoRank

PreprocessCall ==
    /\ ppc = "call"
    /\ table_in = NoTable
    /\ rank_in = NoRank
    /\ variants' = preprocess_query(query_text)
    /\ ppc' = "done"
    /\ UNCHANGED <<cleanVars, schema_file, genVars, calls, emVars, raceVars, orchVars,
                   table_in, descs, query_text, rank_in>>

NextPre == PreprocessCall

SpecPre == InitPre /\ [][NextPre]_vars

-----------------------------------------------------------------------------
(* The orchestrators: NLToSQL of app.py, gradio_app.py and main.py.  One   *)
(* handler runs at a time; process_query is followed call by call.         *)

\* DatabaseManager.connect: "refused" fails before psycopg2.connect returns
\* a connection, "unverified" fails after self.conn was replaced
ConnectOutcomes == {"refused", "unverified", "ok"}

connect(conn, db, outcome) == IF outcome = "refused" THEN conn ELSE db

\* where connect_db stops
Stages ==
    {"refused", "unverified", "no_schema", "no_manager", "no_generator",
     "no_load", "no_index", "ok"}

Connects(stage) == IF stage \in {"refused", "unverified"} THEN stage ELSE "ok"

Extracts(stage) == stage \notin {"refused", "unverified", "no_schema"}

\* the calls connect_db makes after connect, up to the one it stops at
StepsOf(stage) ==
    IF stage \in {"refused", "unverified"} THEN <<>>
    ELSE IF stage \in {"no_schema", "no_manager", "no_generator"} THEN <<"extract_schema">>
    ELSE IF stage = "no_load" THEN <<"extract_schema", "load_schema">>
    ELSE <<"extract_schema", "load_schema", "create_table_descriptions", "build_index">>

\* initialize_nlp_components and step 4 of connect_db: a new manager, its
\* schema loaded from the file (read as s), described and indexed
Prepared(stage, s) ==
    LET loaded    == load_schema(NewManager, IF stage = "no_load" THEN NoSchema ELSE s)
        described == create_table_descriptions(loaded.m)
        built     == build_index(described.m, stage # "no_index")
    IN  IF stage \in {"no_generator", "no_load"} THEN NewManager
        ELSE IF described.raised THEN described.m
        ELSE built.m

\* app.py connect_db (self.db_manager lives as long as the NLToSQL) and
\* gradio_app.py connect_db (a new DatabaseManager at every call)
ConnectDb(db, stage, s) ==
    /\ variant \in {"app", "gradio"}
    /\ opc \in {"idle", "done"}
    /\ db_conn' = connect(IF variant = "gradio" THEN "none" ELSE db_conn, db,
                          Connects(stage))
    /\ schema_file' = IF Extracts(stage) THEN s ELSE schema_file
    /\ em' = IF Extracts(stage) /\ stage # "no_manager" THEN Prepared(stage, s) ELSE em
    /\ qg_exists' = (qg_exists \/ stage \in {"no_load", "no_index", "ok"})
    /\ is_connected' = (is_connected \/ (variant = "gradio" /\ stage = "ok"))
    /\ build_completed' = em'.embedding_map.assigned
    /\ init_result' = [ok |-> stage = "ok", raised |-> FALSE,
                       connected |-> Connects(stage) = "ok", steps |-> StepsOf(stage)]
    /\ opc' = "idle"
    /\ UNCHANGED <<cleanVars, pureVars, genVars, calls, lookup, raceVars, variant,
                   executed, result>>

\* main.py initialize: what connect returns is a tuple and never falsy, what
\* extract_schema and load_schema return is not looked at
Initialize(db, outcome, extract_ok, s, encode_ok) ==
    LET conn      == connect(db_conn, db, outcome)
        file      == IF conn # "none" /\ extract_ok THEN s ELSE schema_file
        loaded    == load_schema(em, file)
        described == create_table_descriptions(loaded.m)
        built     == build_index(described.m, encode_ok)
    IN  /\ variant = "main"
        /\ opc \in {"idle", "done"}
        /\ db_conn' = conn
        /\ schema_file' = file
        /\ em' = IF described.raised THEN described.m ELSE built.m
        /\ build_completed' = em'.embedding_map.assigned
        /\ init_result' = [ok |-> ~described.raised /\ ~built.raised,
                           raised |-> described.raised \/ built.raised,
                           connected |-> outcome = "ok",
                           steps |-> <<"extract_schema", "load_schema",
                                       "create_table_descriptions">>
                                     \o IF described.raised THEN <<>>
                                        ELSE <<"build_index">>]
        /\ opc' = "idle"
        /\ UNCHANGED <<cleanVars, pureVars, genVars, calls, lookup, raceVars, variant,
                       qg_exists, is_connected, executed, result>>

Failure(msg) == [kind |-> "failure", message |-> msg, rows |-> "none"]

Payload(rows) == [kind |-> "payload", message |-> "", rows |-> rows]

\* the guard at the top of process_query
Initialized ==
    IF variant = "app" THEN em.exists /\ qg_exists
    ELSE IF variant = "gradio" THEN is_connected
    ELSE TRUE

\* a faulty variant: the empty result is not told from a found one
LookupProceeds_NoEmptyCheck(r) == ~r.raised

\* the lookup lets the query go on: it did not raise and found a table
LookupProceeds(r) == ~r.raised /\ r.val # <<>>

\* process_query up to the call of generate_sql_query
ProcessLookup(sim) ==
    LET r == find_relevant_tables(em.index, em.embedding_map, sim, TopK) IN
    /\ variant \in {"app", "gradio", "main"}
    /\ opc \in {"idle", "done"}
    /\ executed' = "none"
    /\ intent_resp' = LlmError
    /\ intent' = NoIntent
    /\ sql_resp' = LlmError
    /\ generated' = NoResult
    /\ IF ~Initialized
       THEN /\ calls' = <<>>
            /\ lookup' = NoResult
            /\ result' = Failure("not initialized")
            /\ opc' = "done"
            /\ gpc' = "idle"
            /\ relevant_tables' = <<>>
       ELSE /\ calls' = <<"lookup">>
            /\ lookup' = r
            /\ IF LookupProceeds(r)
               THEN /\ relevant_tables' = r.val
                    /\ gpc' = "load"
                    /\ opc' = "generate"
                    /\ result' = NoAnswer
               ELSE /\ relevant_tables' = <<>>
                    /\ gpc' = "idle"
                    /\ opc' = "done"
                    /\ result' = IF r.raised THEN Failure("processing error")
                                 ELSE Failure("no relevant tables")
    /\ UNCHANGED <<cleanVars, pureVars, schema_file, em, build_completed, raceVars, variant,
                   db_conn, qg_exists, is_connected, init_result>>

\* DatabaseManager.execute_query: (True, rows), or (False, message) when the
\* database rejects the query or there is no cursor
execute_query(conn, accepted) == IF conn # "none" /\ accepted THEN "ok" ELSE "failed"

\* what process_query makes of execute_query's answer.  main.py tests
\* 'results is None' on a tuple and wraps the tuple in a DataFrame.
Answer(v, outcome) ==
    IF v = "main"
    THEN Payload(IF outcome = "ok" THEN "(True, rows)" ELSE "(False, db error)")
    ELSE IF outcome = "ok" THEN Payload("rows")
    ELSE Failure("db error")

\* a faulty variant: a failed execution sends the query back to generation
AfterExecution_Retry(outcome) == IF outcome = "ok" THEN "done" ELSE "generate"

\* process_query returns after execute_query, whatever the outcome
AfterExecution(outcome) == "done"

\* process_query from the return of generate_sql_query on
ProcessExecute(accepted) ==
    /\ opc = "generate"
    /\ gpc = "done"
    /\ IF generated.raised
       THEN /\ result' = Failure("processing error")
            /\ opc' = "done"
            /\ gpc' = "idle"
            /\ UNCHANGED <<calls, executed>>
       ELSE /\ calls' = Append(calls, "execute")
            /\ executed' = execute_query(db_conn, accepted)
            /\ result' = Answer(variant, executed')
            /\ opc' = AfterExecution(executed')
            /\ gpc' = IF opc' = "done" THEN "idle" ELSE "sql"
    /\ UNCHANGED <<cleanVars, pureVars, schema_file, relevant_tables, intent_resp, intent,
                   sql_resp, generated, emVars, raceVars, variant, db_conn,
                   qg_exists, is_connected, init_result>>

OrchIntentResponses == {LlmError, LlmText(<<"{intent}">>), LlmText(<<"[]">>)}

OrchSqlResponses == {LlmError, LlmText(<<"SELECT", " ", "x", ";">>), LlmText(<<"x">>)}

InitOrch ==
    /\ IdleClean
    /\ schema_file \in {NoSchema, SchemaFrom("B", {"orders"})}
    /\ IdleGen
    /\ variant \in {"app", "gradio", "main"}
    /\ em = IF variant = "main" THEN NewManager ELSE NoManager
    /\ lookup = NoResult
    /\ build_completed = FALSE
    /\ IdleRace
    /\ db_conn = "none"
    /\ qg_exists = (variant = "main")
    /\ is_connected = FALSE
    /\ opc = "idle"
    /\ executed = "none"
    /\ result = NoAnswer
    /\ init_result = NoInit
    /\ IdlePure

NextOrch ==
    \/ \E db \in Databases : \E stage \in Stages :
           \E s \in (IF Extracts(stage) THEN Extractions(db) ELSE {NoSchema}) :
               ConnectDb(db, stage, s)
    \/ \E db \in Databases : \E outcome \in ConnectOutcomes :
           \E extract_ok, encode_ok \in BOOLEAN :
               \E s \in (IF connect(db_conn, db, outcome) # "none" /\ extract_ok
                         THEN Extractions(connect(db_conn, db, outcome))
                         ELSE {NoSchema}) :
                   Initialize(db, outcome, extract_ok, s, encode_ok)
    \/ \E sim \in Sims(em.index.items, 1, ScoreLevels) : ProcessLookup(sim)
    \/ GenLoad
    \/ \E resp \in OrchIntentResponses : GenIntent(resp)
    \/ \E resp \in OrchSqlResponses : GenSql(resp)
    \/ \E accepted \in BOOLEAN : ProcessExecute(accepted)

SpecOrch == InitOrch /\ [][NextOrch]_vars

-----------------------------------------------------------------------------
(* Properties of QueryGenerator *)

\* C1: every string generate_sql_query returns is non-empty and begins,
\* whatever the letter case, with SELECT; any other model output makes it
\* raise.  (SpecGen)
C1_ReturnedQueryIsSelect ==
    (gpc = "done" /\ ~generated.raised) =>
        (generated.val # <<>> /\ generated.val[1] \in SelectKw)

\* C1 happens: a query is returned for a fenced answer the cleaning had to
\* cut down to its statement
C1_Witness ==
    /\ gpc = "done"
    /\ ~generated.raised
    /\ "FENCE" \in Range(sql_resp.text)
    /\ generated.val # sql_resp.text

\* the ';'-terminated statements of a text: the ';' that close a stretch
\* holding something other than white space
Statements(s) ==
    {j \in Positions(s, {";"}) :
        \E i \in 1..(j - 1) :
            /\ s[i] \notin White \cup {";"}
            /\ \A k \in i..(j - 1) : s[k] # ";"}

MultiStatement(s) == Cardinality(Statements(s)) >= 2

\* C2 as stated: model output holding more than one ';'-terminated statement
\* makes _clean_sql_query raise.  (SpecClean)
C2_MultiStatementRaises ==
    (cpc = "done" /\ MultiStatement(sql)) => cleaned.raised

\* C2 as the code has it: of a text that, once comments and fences are
\* stripped, holds more than one statement, _clean_sql_query returns the
\* first SELECT ... ; span alone whenever a SELECT in it is followed by a ';',
\* and raises only when there is no such span.  (SpecClean)
C2_FirstSpanReturned ==
    LET body == RemoveFence(RemoveComments(sql)) IN
    (cpc = "done" /\ MultiStatement(body)) =>
        IF \E i, j \in DOMAIN body : i < j /\ body[i] \in SelectKw /\ body[j] = ";"
        THEN LET i == Min(Positions(body, SelectKw))
                 j == Min({k \in Positions(body, {";"}) : k > i})
             IN  ~cleaned.raised /\ cleaned.val = JoinWords(SubSeq(body, i, j))
        ELSE cleaned.raised

\* C2 happens: two statements went in, one SELECT statement came out
C2_Witness ==
    /\ cpc = "done"
    /\ MultiStatement(sql)
    /\ ~cleaned.raised
    /\ Cardinality(Positions(cleaned.val, {";"})) = 1

\* C3: whatever _clean_sql_query returns starts with SELECT, holds exactly
\* one ';' and ends with it.  (SpecClean)
C3_ExactlyOneStatement ==
    (cpc = "done" /\ ~cleaned.raised) =>
        /\ cleaned.val # <<>>
        /\ cleaned.val[1] \in SelectKw
        /\ Cardinality(Positions(cleaned.val, {";"})) = 1
        /\ cleaned.val[Len(cleaned.val)] = ";"

\* C3 happens on the span path, with a second ';' in the input ...
C3_Witness ==
    /\ cpc = "done"
    /\ ~cleaned.raised
    /\ Cardinality(Positions(sql, {";"})) >= 2
    /\ FindAllSelect(RemoveFence(RemoveComments(sql))) # <<>>

\* ... and on the fallback path, where the terminator is appended
C3_WitnessFallback ==
    /\ cpc = "done"
    /\ ~cleaned.raised
    /\ FindAllSelect(RemoveFence(RemoveComments(sql))) = <<>>

\* an intent answer that holds no intent object at all
Malformed(resp) == resp.kind # "text" \/ "{intent}" \notin Range(resp.text)

\* C4 as stated: whatever the intent call comes back with, the SQL call is
\* still made, and a malformed answer leaves the degraded default intent.
\* (SpecGen)
C4_IntentNeverFails ==
    /\ (gpc \in {"sql", "done"} /\ "intent" \in Range(calls) /\ Malformed(intent_resp))
           => intent = DefaultIntent
    /\ (gpc = "done" /\ "intent" \in Range(calls)) => "sql" \in Range(calls)

-----------------------------------------------------------------------------
(* Properties of EmbeddingManager *)

\* C5: on a manager on which no build_index call has run to its end,
\* find_relevant_tables fails with 'Index not built', whatever the query and
\* top_k; it returns no list.  (SpecEM)
C5_LookupBeforeBuildFails ==
    ~build_completed => lookup \in {NoResult, Raised("Index not built")}

\* C5 happens: a lookup was refused on a manager whose schema is loaded and
\* described, but whose index was never built
C5_Witness ==
    /\ ~build_completed
    /\ em.table_descriptions # <<>>
    /\ lookup = Raised("Index not built")

\* C10 as stated: a lookup interleaved with a (re)build reads an index that
\* is completely built and, when it reads the embedding_map, the map of the
\* same build.  (SpecRace)
C10_BuildIsAtomic ==
    (lpc = "done" /\ seen.index > 0) =>
        (seen.filled /\ (seen.read_map => seen.map = seen.index))

\* C11 as stated: after any sequence of load_schema, create_table_descriptions
\* and build_index calls, every table_name find_relevant_tables returns is a
\* key of the schema_info loaded at the time of the call.  (SpecEM)
C11_ReturnedTablesAreInSchema ==
    [][(lookup' # lookup /\ ~lookup'.raised)
          => TableNames(lookup'.val) \subseteq em'.schema_info.tables]_vars

-----------------------------------------------------------------------------
(* Properties of the orchestrators *)

RECURSIVE Count(_, _)
Count(s, x) ==
    IF s = <<>> THEN 0 ELSE (IF Head(s) = x THEN 1 ELSE 0) + Count(Tail(s), x)

Pipeline == <<"lookup", "intent", "sql", "execute">>

\* C6: one call of process_query makes at most one SQL-generation call to
\* the language model and at most one execute_query call, whatever the
\* collaborators answer.  (SpecOrch)
C6_AtMostOneSqlAndOneExecution ==
    Count(calls, "sql") <= 1 /\ Count(calls, "execute") <= 1

\* C6 happens: the database rejected the query, and process_query returned
\* after one SQL call and one execution
C6_Witness ==
    /\ opc = "done"
    /\ executed = "failed"
    /\ Count(calls, "sql") = 1
    /\ Count(calls, "execute") = 1

\* C7: process_query calls lookup, intent extraction, SQL generation and
\* execution in this order and stops at the first failure: nothing follows a
\* lookup that raised or found no table, no execution follows a failed
\* generation, and app.py and gradio_app.py return a success payload only
\* after execute_query reported success.  (SpecOrch)
C7_OrderedAndShortCircuit ==
    /\ calls = SubSeq(Pipeline, 1, Len(calls))
    /\ (lookup.raised \/ lookup.val = <<>>) => calls \in {<<>>, <<"lookup">>}
    /\ (gpc = "done" /\ generated.raised) => "execute" \notin Range(calls)
    /\ (opc = "done" /\ generated.raised) => result.kind = "failure"
    /\ (variant \in {"app", "gradio"} /\ opc = "done" /\ result.kind = "payload")
           => (calls = Pipeline /\ executed = "ok")

\* C7 happens: the lookup found nothing and the query stopped there ...
C7_Witness ==
    /\ opc = "done"
    /\ ~lookup.raised
    /\ lookup.val = <<>>
    /\ calls = <<"lookup">>
    /\ result = Failure("no relevant tables")

\* ... the generation failed after its SQL call and nothing was executed ...
C7_WitnessGeneration ==
    /\ opc = "done"
    /\ generated.raised
    /\ calls = <<"lookup", "intent", "sql">>

\* ... and a payload was returned at the end of the whole pipeline
C7_WitnessPayload ==
    /\ variant \in {"app", "gradio"}
    /\ opc = "done"
    /\ result.kind = "payload"

\* C8 as stated: in each orchestrator, a failed execute_query makes
\* process_query return a failure that carries the database's message, never
\* a success payload.  (SpecOrch)
C8_FailedExecutionIsReported ==
    (opc = "done" /\ executed = "failed") => result = Failure("db error")

\* C9 as stated: in app.py and gradio_app.py, a query that was looked up and
\* executed used an index built from the schema of the database db_manager
\* is connected to.  (SpecOrch)
C9_IndexOfConnectedDatabase ==
    (variant \in {"app", "gradio"} /\ opc = "done" /\ "execute" \in Range(calls))
        => (em.index.built /\ em.schema_info.db = db_conn)

\* the schema file is that of the database now connected to: neither absent
\* nor left from an earlier connection
FreshFile == schema_file # NoSchema /\ schema_file.db = db_conn

\* C12 as stated: when schema_info.json is absent or stale, the components
\* that load it report a load failure: initialisation does not crash for
\* want of a schema and does not end well with an index built from the
\* file, and no SQL-generation call is made from its content.  (SpecOrch)
C12_StaleOrAbsentFileIsALoadFailure ==
    /\ ~(init_result.raised /\ em.schema_info = NoSchema)
    /\ init_result.ok => FreshFile
    /\ "sql" \in Range(calls) => FreshFile

-----------------------------------------------------------------------------
(* Properties of the ranking *)

\* the candidates of variant v: the top_k * 2 nearest items, nearest first
Candidates(v) == Search(rank_in.sim[v], rank_in.top_k * 2)

\* where the loop over variants and candidates matched table t: variant v,
\* place r, counted as one number that grows with the loop
MatchesOf(t) ==
    {v * 100 + r : v \in DOMAIN rank_in.sim, r \in 1..(rank_in.top_k * 2)} \cap
    UNION {{v * 100 + r : r \in {x \in DOMAIN Candidates(v) :
                /\ rank_in.names[Candidates(v)[x]] = t
                /\ rank_in.sim[v][Candidates(v)[x]] > Threshold}} :
           v \in DOMAIN rank_in.sim}

Ranked == ppc = "done" /\ rank_in # NoRank /\ ~lookup.raised

\* C13 as stated: every similarity_score is in [0,1] and the list is sorted
\* strictly descending by similarity_score.  (SpecRank)
C13_ScoresInRangeStrictlyDescending ==
    Ranked =>
        /\ \A i \in DOMAIN lookup.val :
               lookup.val[i].similarity_score \in 0..100
        /\ \A i \in 1..(Len(lookup.val) - 1) :
               lookup.val[i].similarity_score > lookup.val[i + 1].similarity_score

\* C13 as the code has it: every similarity_score is over the threshold and
\* at most 1, the list is sorted descending, and tables of equal score come
\* in the order in which the loop first matched them.  (SpecRank)
C13_DescendingWithStableTies ==
    Ranked =>
        /\ \A i \in DOMAIN lookup.val :
               /\ lookup.val[i].similarity_score > Threshold
               /\ lookup.val[i].similarity_score <= 100
        /\ \A i \in 1..(Len(lookup.val) - 1) :
               \/ lookup.val[i].similarity_score > lookup.val[i + 1].similarity_score
               \/ /\ lookup.val[i].similarity_score = lookup.val[i + 1].similarity_score
                  /\ Min(MatchesOf(lookup.val[i].table_name))
                        < Min(MatchesOf(lookup.val[i + 1].table_name))

\* C13 happens: two tables were returned with the same score, the one matched
\* by a later variant second
C13_Witness ==
    /\ Ranked
    /\ Len(lookup.val) = 2
    /\ lookup.val[1].similarity_score = lookup.val[2].similarity_score
    /\ Min(MatchesOf(lookup.val[2].table_name)) > 200

MaxOf(S) == CHOOSE m \in S : \A k \in S : k <= m

\* the scores over the threshold that the candidates of any variant give
\* table t
MatchedScores(t) ==
    UNION {{rank_in.sim[v][Candidates(v)[r]] : r \in {x \in DOMAIN Candidates(v) :
                /\ rank_in.names[Candidates(v)[x]] = t
                /\ rank_in.sim[v][Candidates(v)[x]] > Threshold}} :
           v \in DOMAIN rank_in.sim}

\* C14: the list find_relevant_tables(query, top_k) returns has at most top_k
\* entries and pairwise distinct table names, and the score of a table is the
\* greatest similarity among its matched description variants over all the
\* query variants.  (SpecRank)
C14_AtMostTopKDistinctMaxScore ==
    Ranked =>
        /\ Len(lookup.val) <= rank_in.top_k
        /\ \A i, j \in DOMAIN lookup.val :
               i # j => lookup.val[i].table_name # lookup.val[j].table_name
        /\ \A i \in DOMAIN lookup.val :
               /\ MatchedScores(lookup.val[i].table_name) # {}
               /\ lookup.val[i].similarity_score
                     = MaxOf(MatchedScores(lookup.val[i].table_name))

\* C14 happens: with three query variants and two tables matched, one table
\* was returned, at a score that several lower matches of it did not lower
C14_Witness ==
    /\ Ranked
    /\ Len(rank_in.sim) = 3
    /\ rank_in.top_k = 1
    /\ Cardinality({t \in Range(rank_in.names) : MatchedScores(t) # {}}) = 2
    /\ Len(lookup.val) = 1
    /\ Cardinality(MatchedScores(lookup.val[1].table_name)) = 2
    /\ rank_in.sim[3][1] < lookup.val[1].similarity_score

\* a ranking of the tables with a score in scores(_), cut at k: as many
\* entries as there are such tables, up to k; each entry a different table
\* with its greatest score; descending; no table left out that scores
\* higher than one returned
IsRanking(val, scores(_), k) ==
    LET tables == {t \in Range(rank_in.names) : scores(t) # {}} IN
    /\ Len(val) = (IF Cardinality(tables) < k THEN Cardinality(tables) ELSE k)
    /\ \A i \in DOMAIN val :
           /\ val[i].table_name \in tables
           /\ val[i].similarity_score = MaxOf(scores(val[i].table_name))
    /\ \A i, j \in DOMAIN val : i # j => val[i].table_name # val[j].table_name
    /\ \A i \in 1..(Len(val) - 1) :
           val[i].similarity_score >= val[i + 1].similarity_score
    /\ \A t \in tables \ {val[i].table_name : i \in DOMAIN val} :
           \A i \in DOMAIN val : MaxOf(scores(t)) <= val[i].similarity_score

\* every score over the threshold that any corpus item of table t has for
\* any query variant
ReferenceScores(t) ==
    UNION {{rank_in.sim[v][i] : i \in {x \in DOMAIN rank_in.names :
                rank_in.names[x] = t /\ rank_in.sim[v][x] > Threshold}} :
           v \in DOMAIN rank_in.sim}

\* the same, of the items that are among the top_k * 2 nearest of the variant
NearestScores(t) ==
    UNION {{rank_in.sim[v][i] : i \in {x \in DOMAIN rank_in.names :
                /\ rank_in.names[x] = t
                /\ rank_in.sim[v][x] > Threshold
                /\ Rank(rank_in.sim[v], x) <= rank_in.top_k * 2}} :
           v \in DOMAIN rank_in.sim}

\* C20 as stated: find_relevant_tables returns the reference ranking: every
\* corpus item over the threshold, aggregated by table with the maximum,
\* sorted descending, cut at top_k.  (SpecRank)
C20_ReferenceRanking ==
    Ranked => IsRanking(lookup.val, ReferenceScores, rank_in.top_k)

\* C20 as the code has it: the reference ranking of the items that are, for
\* some query variant, among its top_k * 2 nearest corpus items.  (SpecRank)
C20_RankingOfNearestItems ==
    Ranked => IsRanking(lookup.val, NearestScores, rank_in.top_k)

\* C20 happens: two tables have an item over the threshold and top_k is 2,
\* but the four nearest items all belong to one table, the only one returned
C20_Witness ==
    /\ Ranked
    /\ rank_in.top_k = 2
    /\ Cardinality({t \in Range(rank_in.names) : ReferenceScores(t) # {}}) = 2
    /\ Len(lookup.val) = 1

-----------------------------------------------------------------------------
(* Properties of the description methods *)

Described == ppc = "done" /\ table_in # NoTable

OneColumn == Described /\ Len(table_in.columns) = 1

ColName == LowerName(table_in.columns[1].name)

ColType == table_in.columns[1].type

\* the money names of the specification
MonetaryAliases == {<<"salary">>, <<"wage">>, <<"payment">>, <<"amount">>, <<"price">>}

\* C15 as stated: a column whose lowercased name is exactly salary, wage,
\* payment, amount or price is given the monetary role, whatever its type.
\* (SpecDesc)
C15_MonetaryAliasesAreMonetary ==
    (OneColumn /\ ColName \in MonetaryAliases) => descs.roles[1] = "monetary"

\* the role the stated precedence gives: identifier, monetary, temporal,
\* naming, generic, the first that matches
StatedRole(n, ty) ==
    IF "id" \in Range(n) /\ n[Len(n)] = "id" THEN "identifier"
    ELSE IF n \in MonetaryAliases THEN "monetary"
    ELSE IF "date" \in Range(n) \/ ty \in {"date", "timestamp without time zone"}
         THEN "temporal"
    ELSE IF n \in {<<"name">>, <<"title">>, <<"label">>} THEN "naming"
    ELSE "generic"

\* C16 as stated: for every column name and type the role is the first match
\* of identifier, monetary, temporal, naming, generic; in particular a money
\* name with a date or timestamp type is monetary.  (SpecDesc)
C16_ClassificationPrecedence ==
    OneColumn => descs.roles[1] = StatedRole(ColName, ColType)

\* C17: for a table of a loaded schema, with or without columns,
\* create_table_descriptions does not raise and gives the combined column
\* sentence, the purpose sentence and one sentence per column, in this
\* order, before any other.  (SpecDesc)
C17_AtLeastTwoDescriptions ==
    Described =>
        /\ ~descs.raised
        /\ Len(descs.descriptions) >= 2 + Len(table_in.columns)
        /\ SubSeq(descs.descriptions, 1, 2 + Len(table_in.columns))
             = <<"columns", "purpose">> \o [i \in DOMAIN table_in.columns |-> "column"]

\* C17 happens: a table without columns was described by two sentences
C17_Witness ==
    /\ Described
    /\ table_in.columns = <<>>
    /\ descs.descriptions = <<"columns", "purpose">>

-----------------------------------------------------------------------------
(* Properties of _preprocess_query *)

Preprocessed == ppc = "done" /\ variants # <<>>

\* the numeric literals and the comparison phrases of the query, in small
\* letters, as the patterns find them
Literals == Amounts(LowerQuery(query_text))

Phrases == Comparisons(LowerQuery(query_text))

\* the auxiliary variants: none unless a literal and a phrase were both
\* found, else the two phrasings of every (literal, phrase) pair, pair after
\* pair, literal by literal
AuxiliaryPerPair ==
    /\ Len(variants) = 1 + 2 * Len(Literals) * Len(Phrases)
    /\ \A a \in DOMAIN Literals : \A c \in DOMAIN Phrases :
           LET at == 1 + 2 * ((a - 1) * Len(Phrases) + (c - 1)) IN
           /\ variants[at + 1] = Phrasing("records", Phrases[c], Literals[a])
           /\ variants[at + 2] = Phrasing("entries", Phrases[c], Literals[a])

\* C18 as stated: the variants always include the original query text, and
\* auxiliary variants are added only when a numeric literal and a comparison
\* phrase were both found, one group per (literal, phrase) pair.  (SpecPre)
C18_OriginalQueryIsAVariant ==
    Preprocessed =>
        /\ \E i \in DOMAIN variants : variants[i] = QueryVariant(query_text)
        /\ AuxiliaryPerPair

\* C18 as the code has it: the first variant is the query text in small
\* letters, and auxiliary variants are added only when a numeric literal and
\* a comparison phrase were both found, the two phrasings of each (literal,
\* phrase) pair.  (SpecPre)
C18_LowercasedQueryIsFirstVariant ==
    Preprocessed =>
        /\ variants[1] = QueryVariant(LowerQuery(query_text))
        /\ AuxiliaryPerPair

\* C18 happens: a query with capitals, two literals and a phrase gave its
\* lowercased text and four phrasings
C18_Witness ==
    /\ Preprocessed
    /\ LowerQuery(query_text) # query_text
    /\ Len(Literals) = 2
    /\ Len(Phrases) = 1
    /\ Len(variants) = 5

-----------------------------------------------------------------------------
(* Comments in the statement _clean_sql_query returns *)

\* a line comment opens in v: two dashes in a row
HasLineComment(v) == \E i \in 1..(Len(v) - 1) : v[i] = "-" /\ v[i + 1] = "-"

\* v holds a block comment: an opening mark and a closing mark after it
HasBlockComment(v) ==
    \E i \in 1..(Len(v) - 3) : \E j \in (i + 2)..(Len(v) - 1) :
        v[i] = "/" /\ v[i + 1] = "*" /\ v[j] = "*" /\ v[j + 1] = "/"

\* C19: the statement _clean_sql_query returns contains no SQL comment, no
\* line comment and no block comment, a block comment that spans several
\* lines included.  (SpecComment)
C19_ReturnedStatementHasNoComment ==
    (cpc = "done" /\ ~cleaned.raised) =>
        ~HasLineComment(cleaned.val) /\ ~HasBlockComment(cleaned.val)

-----------------------------------------------------------------------------
(* main.py initialize and the outcome of DatabaseManager.connect *)

\* C21: in main.py, initialize returns False and makes none of the later
\* calls (schema extraction, schema load, index build) when connect reports
\* a connection failure; it returns True only after a successful connection
\* and a completed index build.  (SpecOrch)
C21_FailedConnectionStopsInitialize ==
    variant = "main" =>
        /\ ~init_result.connected =>
               ~init_result.ok /\ ~init_result.raised /\ init_result.steps = <<>>
        /\ init_result.ok => init_result.connected /\ build_completed

-----------------------------------------------------------------------------
(* _clean_sql_query on its own outputs *)

\* C22: _clean_sql_query is idempotent on its own outputs: called again on
\* a statement it returned, it does not raise and returns that statement
\* unchanged.  (SpecTwice)
C22_CleanIsIdempotent == cpc = "again" => recleaned = Returned(cleaned.val)

=============================================================================
